---- MODULE Spec2Model ----
(***************************************************************************)
(* Model of src/cli.py (misp-tr-cli): threat-report reconciliation         *)
(* (get_reports), score aggregation (ThreatReport.scores / overall_score), *)
(* the reports and team_report commands, and the mutating commands         *)
(* approve, feedback and score acting on the remote record store.          *)
(*                                                                         *)
(* The record store (MISP) is the state: primary events, the events that   *)
(* extend them (sub-records) and the store clock that stamps writes.       *)
(* Fields the commands only render (title, organisation name, key event,   *)
(* comments, monitors) are left out: no status, score, timestamp or        *)
(* filter decision reads them.  All primary events belong to the reviewed  *)
(* organisations, so the org argument of search selects all of them.       *)
(*                                                                         *)
(* Timestamps are the integers arrow.get(int(...)) wraps; arrow compares   *)
(* instants by that integer.  A Python float quotient a / b is kept as the *)
(* pair <<a, b>> and compared by cross-multiplication.                     *)
(***************************************************************************)
EXTENDS Integers, Sequences, FiniteSets, TLC

VARIABLES events, subs, now, nscored, last, runs

vars == <<events, subs, now, nscored, last, runs>>

----------------------------------------------------------------------------
(* Bounds of the model.                                                    *)

NEvents == 2
MaxTime == 2
MaxSubs == 2
MaxEntries == 3
MaxScored == 2
MaxAttrs == 1
MaxObjs == 1
NProcs == 2

Ids == 1..NEvents
Times == 0..MaxTime

----------------------------------------------------------------------------
(* Configuration ids (app.misp_config[...]) and fixed vocabularies.        *)

approved_tag_id == "approved_tag"
threat_report_tag_id == "threat_report_tag"
info_request_tag_id == "info_request_tag"
score_tag_id == "score_tag"
yt_org_id == "yt_org"
other_org_id == "other_org"

STATUSES == {"new", "info-requested", "updated", "approved"}

\* values entered at the score prompt ("between 0 (worst) and 12 (best)")
ScoreValues == {4, 8, 12}

\* Python None / an optional value
None == <<>>
Some(x) == <<x>>

OptTimes == {None} \cup {Some(t) : t \in Times}

\* sequences over S of length at most n
BSeq(S, n) == UNION {[1..k -> S] : k \in 0..n}

Max2(a, b) == IF a >= b THEN a ELSE b

\* Python truthiness of an optional Arrow value: an Arrow instant is always
\* truthy (also the epoch), None is falsy
Truthy(opt) == opt # None

----------------------------------------------------------------------------
(* ThreatReport.scores and ThreatReport.overall_score.                     *)
(* A _scores entry is the tuple (int(obj["timestamp"]), score, comment);   *)
(* score is the attribute value as the store returns it, a decimal string. *)
(* The comment only orders entries equal in timestamp and score, which     *)
(* does not change the list of scores, so it is left out of the tuple.     *)

\* the decimal string of a score value, as a sequence of digits
Str(n) == IF n < 10 THEN <<n>> ELSE <<n \div 10, n % 10>>

\* Python's str comparison a < b (lexicographic)
RECURSIVE StrLess(_, _)
StrLess(a, b) ==
    IF b = <<>> THEN FALSE
    ELSE IF a = <<>> THEN TRUE
    ELSE IF Head(a) # Head(b) THEN Head(a) < Head(b)
    ELSE StrLess(Tail(a), Tail(b))

\* Python's tuple comparison x < y on (timestamp, score)
TupleLess(x, y) ==
    \/ x.timestamp < y.timestamp
    \/ x.timestamp = y.timestamp /\ StrLess(Str(x.score), Str(y.score))

\* sorted(): stable, ascending
RECURSIVE Insert(_, _)
Insert(x, s) ==
    IF s = <<>> THEN <<x>>
    ELSE IF TupleLess(x, Head(s)) THEN <<x>> \o s
    ELSE <<Head(s)>> \o Insert(x, Tail(s))

RECURSIVE sorted(_)
sorted(s) ==
    IF s = <<>> THEN <<>>
    ELSE Insert(s[Len(s)], sorted(SubSeq(s, 1, Len(s) - 1)))

\* ThreatReport.scores: [int(s[1]) for s in sorted(self._scores)]
scores(_scores) ==
    LET srt == sorted(_scores) IN [i \in 1..Len(srt) |-> srt[i].score]

reversed(s) == [i \in 1..Len(s) |-> s[Len(s) + 1 - i]]

RECURSIVE SumSeq(_)
SumSeq(s) == IF s = <<>> THEN 0 ELSE Head(s) + SumSeq(Tail(s))

\* ThreatReport.overall_score: None, or the quotient score / weight
overall_score(_scores) ==
    LET sc == scores(_scores)
        rev == reversed(sc)
        weight == SumSeq([i \in 1..Len(sc) |-> i])
    IN  IF sc = <<>> THEN None
        ELSE Some(<<SumSeq([i \in 1..Len(rev) |-> i * rev[i]]), weight>>)

\* ThreatReport.is_scored
is_scored(_scores) == _scores # <<>>

----------------------------------------------------------------------------
(* get_reports: reconciliation of one primary event and the filters.       *)
(* events[id] is the primary event id as search / get_event return it:     *)
(*   Tag               set of tag ids                                      *)
(*   timestamp, publish_timestamp                                          *)
(*   Attribute         sequence of attribute timestamps                    *)
(*   Object            sequence of [timestamp, Attribute]                  *)
(* subs[i] is the event with id i that extends a primary event:            *)
(*   extends           id of the primary event                             *)
(*   Orgc              creating organisation                               *)
(*   Tag, publish_timestamp                                                *)
(*   Object            its scoring-template objects, [timestamp, score]    *)

RECURSIVE MaxOver(_, _)
MaxOver(m, ts) == IF ts = <<>> THEN m ELSE MaxOver(Max2(m, Head(ts)), Tail(ts))

\* the loop over e["Object"]: the object's timestamp, then its attributes'
RECURSIVE MaxOverObjects(_, _)
MaxOverObjects(m, objs) ==
    IF objs = <<>> THEN m
    ELSE MaxOverObjects(
             MaxOver(Max2(m, Head(objs).timestamp), Head(objs).Attribute),
             Tail(objs))

published_of(e) == e.publish_timestamp

\* updated_of without `updated = max(published, updated)`
updated_of_unclamped(e) ==
    MaxOverObjects(MaxOver(e.timestamp, e.Attribute), e.Object)

\* updated: max(published, timestamp), then attributes, then objects
updated_of(e) ==
    MaxOverObjects(
        MaxOver(Max2(published_of(e), e.timestamp), e.Attribute),
        e.Object)

\* SkipSince with the comparison turned round
SkipSince_inverted(updated, since) == Truthy(since) /\ updated > since[1]

\* `if since and updated < since: continue`
SkipSince(updated, since) == Truthy(since) /\ updated < since[1]

\* `if until and published > until: continue`
SkipUntil(published, until) == Truthy(until) /\ published > until[1]

is_approved(e) == approved_tag_id \in e.Tag

\* SkipApprovedEarly without the `only and` test
SkipApprovedEarly_by_default(only, approved) ==
    approved /\ "approved" \notin only

\* `if only and approved and "approved" not in only: continue`
SkipApprovedEarly(only, approved) ==
    only # {} /\ approved /\ "approved" \notin only

\* e.get("extensionEvents", {}) of the extended get: the events extending id
extensionEvents(id) == {i \in DOMAIN subs : subs[i].extends = id}

\* the sub-events the loop does not skip: created by the reviewing organisation
ReviewedSubevents(id) == {i \in extensionEvents(id) : subs[i].Orgc = yt_org_id}

\* scores.append((int(obj["timestamp"]), score, comment)) for each scoring object
ScoreTuples(objs) ==
    [k \in 1..Len(objs) |-> [timestamp |-> objs[k].timestamp, score |-> objs[k].score]]

\* one iteration of `for subevent in ...values()`
ScanStep(id, i, acc) ==
    LET se == subs[i]
        ts == se.publish_timestamp
        acc1 == IF /\ info_request_tag_id \in se.Tag
                   /\ \/ acc.info_request_event = None
                      \/ ts > acc.info_requested_at[1]
                THEN [acc EXCEPT !.info_requested_at = Some(ts),
                                 !.info_request_event = Some(i)]
                ELSE acc
        acc2 == IF score_tag_id \in se.Tag
                THEN [acc1 EXCEPT !.scores = @ \o ScoreTuples(se.Object)]
                ELSE acc1
    IN  IF i \notin ReviewedSubevents(id) THEN acc ELSE acc2

RECURSIVE ScanFrom(_, _, _)
ScanFrom(id, i, acc) ==
    IF i > Len(subs) THEN acc ELSE ScanFrom(id, i + 1, ScanStep(id, i, acc))

ScanSubevents(id) ==
    ScanFrom(id, 1, [info_requested_at |-> None, info_request_event |-> None,
                     scores |-> <<>>])

\* Status with the approved test made first, so that an info request
\* overrides it
Status_approved_first(published, info_requested_at, approved) ==
    LET s0 == IF approved THEN "approved" ELSE "new"
    IN  IF Truthy(info_requested_at)
        THEN IF published > info_requested_at[1]
             THEN "updated" ELSE "info-requested"
        ELSE s0

\* Status with `published >= info_requested_at`
Status_not_strict(published, info_requested_at, approved) ==
    LET s1 == IF Truthy(info_requested_at)
              THEN IF published >= info_requested_at[1]
                   THEN "updated" ELSE "info-requested"
              ELSE "new"
    IN  IF approved THEN "approved" ELSE s1

\* status = "new"; info-requested / updated; approved last
Status(published, info_requested_at, approved) ==
    LET s1 == IF Truthy(info_requested_at)
              THEN IF published > info_requested_at[1]
                   THEN "updated" ELSE "info-requested"
              ELSE "new"
    IN  IF approved THEN "approved" ELSE s1

\* `if only and status not in only: continue`
SkipStatus(only, status) == only # {} /\ status \notin only

\* `if require_score is True and not scores ... elif require_score is False and scores`
SkipScore(require_score, _scores) ==
    \/ require_score = Some(TRUE) /\ ~is_scored(_scores)
    \/ require_score = Some(FALSE) /\ is_scored(_scores)

\* the ThreatReport built for primary event id, with the properties the
\* commands read from it (scores, overall_score)
ThreatReport(id) ==
    LET e == events[id]
        scan == ScanSubevents(id)
    IN  [id |-> id,
         published |-> published_of(e),
         updated |-> updated_of(e),
         status |-> Status(published_of(e), scan.info_requested_at, is_approved(e)),
         _scores |-> scan.scores,
         scores |-> scores(scan.scores),
         overall_score |-> overall_score(scan.scores),
         info_request_event |-> scan.info_request_event]

\* app.misp.search(org=orgs, tags=[threat_report_tag_id]): ids in store order
Searched(id) == threat_report_tag_id \in events[id].Tag

\* the event survives the checks made before the extended get
PassesEarly(id, only, since, until) ==
    /\ Searched(id)
    /\ ~SkipSince(updated_of(events[id]), since)
    /\ ~SkipUntil(published_of(events[id]), until)
    /\ ~SkipApprovedEarly(only, is_approved(events[id]))

Yielded(id, only, since, until, require_score) ==
    /\ PassesEarly(id, only, since, until)
    /\ ~SkipStatus(only, ThreatReport(id).status)
    /\ ~SkipScore(require_score, ThreatReport(id)._scores)

RECURSIVE ReportsFrom(_, _, _, _, _)
ReportsFrom(id, only, since, until, require_score) ==
    IF id > NEvents THEN <<>>
    ELSE (IF Yielded(id, only, since, until, require_score)
          THEN <<ThreatReport(id)>> ELSE <<>>)
         \o ReportsFrom(id + 1, only, since, until, require_score)

\* the sequence of reports the generator yields
get_reports(only, since, until, require_score) ==
    ReportsFrom(1, only, since, until, require_score)

\* store reads get_reports issues: the search, then per event that passes the
\* early checks the extended get and one get per reviewed sub-event
RECURSIVE FetchesFrom(_, _, _, _)
FetchesFrom(id, only, since, until) ==
    IF id > NEvents THEN 0
    ELSE (IF PassesEarly(id, only, since, until)
          THEN 1 + Cardinality(ReviewedSubevents(id)) ELSE 0)
         + FetchesFrom(id + 1, only, since, until)

Fetches(only, since, until) == 1 + FetchesFrom(1, only, since, until)

----------------------------------------------------------------------------
(* The reports command (without --live; --live re-runs the same listing    *)
(* every 5 seconds).  Its result is what the command did: whether it       *)
(* aborted, the store reads it issued and the rows it listed, next to the  *)
(* arguments it was called with.                                           *)

\* the if / elif chain over the --scored and --unscored flags
RequireScore(scored, unscored) ==
    IF scored THEN [aborted |-> FALSE, require_score |-> Some(TRUE)]
    ELSE IF unscored THEN [aborted |-> FALSE, require_score |-> Some(FALSE)]
    ELSE IF scored /\ unscored THEN [aborted |-> TRUE, require_score |-> None]
    ELSE [aborted |-> FALSE, require_score |-> None]

reports(only, since, until, unscored, scored) ==
    LET rs == RequireScore(scored, unscored)
        args == [op |-> "reports", only |-> only, since |-> since,
                 until |-> until, unscored |-> unscored, scored |-> scored]
    IN  IF rs.aborted
        THEN args @@ [aborted |-> TRUE, fetches |-> 0, rows |-> <<>>]
        ELSE args @@ [aborted |-> FALSE,
                      fetches |-> Fetches(only, since, until),
                      rows |-> get_reports(only, since, until, rs.require_score)]

----------------------------------------------------------------------------
(* The team_report command: status counts, the overall scores collected,   *)
(* and the statistics table.  Average and median are only rendered.        *)

\* reports_by_status[report.status] += 1 over the reports, from all-zero
RECURSIVE CountByStatus_not_accumulated(_, _)
CountByStatus_not_accumulated(counts, reps) ==
    IF reps = <<>> THEN counts
    ELSE CountByStatus_not_accumulated(
             [counts EXCEPT ![Head(reps).status] = 1], Tail(reps))

RECURSIVE CountByStatus(_, _)
CountByStatus(counts, reps) ==
    IF reps = <<>> THEN counts
    ELSE CountByStatus([counts EXCEPT ![Head(reps).status] = @ + 1], Tail(reps))

\* scores.append(report.overall_score) when it is not None
RECURSIVE CollectScores(_)
CollectScores(reps) ==
    IF reps = <<>> THEN <<>>
    ELSE (IF Head(reps).overall_score # None
          THEN Head(reps).overall_score ELSE <<>>)
         \o CollectScores(Tail(reps))

\* `if scores:` guards the statistics table, statistics.stdev included
StdevCalled(sample) == sample # <<>>

\* statistics.stdev raises StatisticsError on fewer than two data points
StdevRaises(sample) == Len(sample) < 2

team_report(since, until) ==
    LET reps == get_reports({}, since, until, None)
        sample == CollectScores(reps)
    IN  [op |-> "team_report", since |-> since, until |-> until,
         rows |-> reps,
         reports_by_status |-> CountByStatus([k \in STATUSES |-> 0], reps),
         scores |-> sample,
         stdev_called |-> StdevCalled(sample),
         error |-> StdevCalled(sample) /\ StdevRaises(sample)]

----------------------------------------------------------------------------
(* The commands as actions.  A reading command leaves the store alone; it  *)
(* is run once against a given store, its result kept in last.             *)

Idle == last.op = "none"

OnlyChoices ==
    {{}, {"approved"}, {"new"}, {"new", "info-requested", "updated"}}

\* Sinces, Untils: the --since / --until values tried
ReportsCmd(Sinces, Untils) ==
    /\ Idle
    /\ \E only \in OnlyChoices, since \in Sinces, until \in Untils,
          unscored \in BOOLEAN, scored \in BOOLEAN :
           last' = reports(only, since, until, unscored, scored)
    /\ UNCHANGED <<events, subs, now, nscored, runs>>

TeamReportCmd(Sinces, Untils) ==
    /\ Idle
    /\ \E since \in Sinces, until \in Untils :
           last' = team_report(since, until)
    /\ UNCHANGED <<events, subs, now, nscored, runs>>

\* AlreadyApproved testing the threat-report tag of the commented-out check
AlreadyApproved_never(tags) == FALSE

AlreadyApproved_wrong_tag(tags) == threat_report_tag_id \notin tags

\* approve: `if approved_tag_id in tags: app.abort(...)`
AlreadyApproved(tags) == approved_tag_id \in tags

\* feedback, score: `if threat_report_tag_id not in tags: app.abort(...)`
NotThreatReport(tags) == threat_report_tag_id \notin tags

\* App.abort: _click_context.exit raises, nothing after the call runs
Aborted(op, id) == [op |-> op, id |-> id, aborted |-> TRUE, tag_calls |-> 0]

Approve(id) ==
    /\ IF AlreadyApproved(events[id].Tag)
       THEN /\ last' = Aborted("approve", id)
            /\ UNCHANGED events
       ELSE /\ events' = [events EXCEPT ![id].Tag = @ \cup {approved_tag_id}]
            /\ last' = [op |-> "approve", id |-> id, aborted |-> FALSE,
                        tag_calls |-> 1]
    /\ UNCHANGED <<subs, now, nscored, runs>>

\* what click.edit() can return: None (closed without saving) or the text
Edited == {None, Some(""), Some("text")}

\* Python `not text` for an edited text
Empty(text) == text = None \/ text = Some("")

\* feedback: message is what click.edit() returns; only None aborts
Feedback(id, message) ==
    /\ IF NotThreatReport(events[id].Tag) \/ message = None
       THEN /\ last' = Aborted("feedback", id)
            /\ UNCHANGED subs
       ELSE /\ Len(subs) < MaxSubs
            /\ subs' = Append(subs,
                   [extends |-> id, Orgc |-> yt_org_id,
                    Tag |-> {info_request_tag_id, approved_tag_id},
                    publish_timestamp |-> now, Object |-> <<>>])
            /\ last' = [op |-> "feedback", id |-> id, aborted |-> FALSE,
                        tag_calls |-> 2]
    /\ UNCHANGED <<events, now, nscored, runs>>

\* the tag test of get_scoring_event on one sub-event
IsScoringEvent(se) == score_tag_id \in se.Tag

\* get_scoring_event: the first reviewed sub-event carrying the score tag,
\* None when a new event has to be created
RECURSIVE FindScoringFrom(_, _)
FindScoringFrom(id, i) ==
    IF i > Len(subs) THEN None
    ELSE IF i \in ReviewedSubevents(id) /\ IsScoringEvent(subs[i]) THEN Some(i)
    ELSE FindScoringFrom(id, i + 1)

\* get_scoring_event whose organisation test never matches
get_scoring_event_never_found(id) == None

get_scoring_event(id) == FindScoringFrom(id, 1)

\* score: scorevalue from click.prompt, justification from click.edit
Score(id, scorevalue, justification) ==
    LET found == get_scoring_event(id)
        scoring_object == [timestamp |-> now, score |-> scorevalue]
    IN
    /\ IF NotThreatReport(events[id].Tag) \/ Empty(justification)
       THEN /\ last' = Aborted("score", id)
            /\ UNCHANGED <<subs, nscored>>
       ELSE /\ nscored[id] < MaxScored
            /\ IF found = None
               THEN /\ Len(subs) < MaxSubs
                    /\ subs' = Append(subs,
                           [extends |-> id, Orgc |-> yt_org_id,
                            Tag |-> {score_tag_id},
                            publish_timestamp |-> 0,
                            Object |-> <<scoring_object>>])
               ELSE subs' = [subs EXCEPT ![found[1]].Object =
                                             Append(@, scoring_object)]
            /\ nscored' = [nscored EXCEPT ![id] = @ + 1]
            /\ last' = [op |-> "score", id |-> id, aborted |-> FALSE,
                        tag_calls |-> IF found = None THEN 1 ELSE 0]
    /\ UNCHANGED <<events, now, runs>>

----------------------------------------------------------------------------
(* The score command step by step, for runs of it that overlap: each store *)
(* call of a run is a step, and a write may fail, which ends the run.      *)
(* runs[p] is run p of the command:                                        *)
(*   pc        "idle" (not running), or the step it is about to take       *)
(*   id        the event being scored                                      *)
(*   ext       extensionEvents of the extended get made when it began      *)
(*   found     the scoring event get_scoring_event returned, or None       *)
(*   target    the event the scoring object goes to, or None               *)
(*   score     the value entered at the prompt                             *)

Procs == 1..NProcs

IdleRun ==
    [pc |-> "idle", id |-> 1, ext |-> {}, found |-> None, target |-> None,
     score |-> 0]

NoRuns == [p \in Procs |-> IdleRun]

\* get_scoring_event over the extensionEvents read earlier: each sub-event
\* of the reviewing organisation is fetched again and its tags tested
RECURSIVE LookupFrom(_, _)
LookupFrom(ext, i) ==
    IF i > Len(subs) THEN None
    ELSE IF i \in ext /\ subs[i].Orgc = yt_org_id /\ IsScoringEvent(subs[i])
         THEN Some(i)
    ELSE LookupFrom(ext, i + 1)

\* the extended get, the tag check, the prompt and the editor
ScoreBegin(p, id, scorevalue, justification) ==
    /\ runs[p].pc = "idle"
    /\ IF NotThreatReport(events[id].Tag) \/ Empty(justification)
       THEN UNCHANGED runs
       ELSE runs' = [runs EXCEPT ![p] =
                        [pc |-> "lookup", id |-> id, ext |-> extensionEvents(id),
                         found |-> None, target |-> None, score |-> scorevalue]]
    /\ UNCHANGED <<events, subs, now, nscored, last>>

\* scoring_event, created = get_scoring_event(app, original_event)
ScoreLookup(p) ==
    /\ runs[p].pc = "lookup"
    /\ LET found == LookupFrom(runs[p].ext, 1)
       IN  runs' = [runs EXCEPT ![p].found = found,
                                ![p].target = found,
                                ![p].pc = IF found = None THEN "create" ELSE "add"]
    /\ UNCHANGED <<events, subs, now, nscored, last>>

\* scoring_event = app.misp.add_event(scoring_event, pythonify=True)
ScoreCreate(p) ==
    /\ runs[p].pc = "create"
    /\ Len(subs) < MaxSubs
    /\ subs' = Append(subs,
           [extends |-> runs[p].id, Orgc |-> yt_org_id, Tag |-> {},
            publish_timestamp |-> 0, Object |-> <<>>])
    /\ runs' = [runs EXCEPT ![p].target = Some(Len(subs) + 1), ![p].pc = "tag"]
    /\ UNCHANGED <<events, now, nscored, last>>

\* app.misp.tag(scoring_event, score_tag_id, local=True)
ScoreTag(p) ==
    /\ runs[p].pc = "tag"
    /\ subs' = [subs EXCEPT ![runs[p].target[1]].Tag = @ \cup {score_tag_id}]
    /\ runs' = [runs EXCEPT ![p].pc = "add"]
    /\ UNCHANGED <<events, now, nscored, last>>

\* app.misp.add_object(scoring_event, scoring_object), then the run ends
ScoreAddObject(p) ==
    /\ runs[p].pc = "add"
    /\ nscored[runs[p].id] < MaxScored
    /\ subs' = [subs EXCEPT ![runs[p].target[1]].Object =
                    Append(@, [timestamp |-> now, score |-> runs[p].score])]
    /\ nscored' = [nscored EXCEPT ![runs[p].id] = @ + 1]
    /\ runs' = [runs EXCEPT ![p] = IdleRun]
    /\ UNCHANGED <<events, now, last>>

\* a write to the store fails: the exception ends the run, nothing is
\* retried or undone; the command can be run again
ScoreWriteFails(p) ==
    /\ runs[p].pc \in {"create", "tag", "add"}
    /\ runs' = [runs EXCEPT ![p] = IdleRun]
    /\ UNCHANGED <<events, subs, now, nscored, last>>

----------------------------------------------------------------------------
(* What happens in the store outside this tool; last then holds no         *)
(* command result.                                                         *)

\* the author publishes the event again
Republish(id) ==
    /\ events[id].publish_timestamp # now
    /\ events' = [events EXCEPT ![id].publish_timestamp = now]
    /\ last' = [op |-> "store"]
    /\ UNCHANGED <<subs, now, nscored, runs>>

\* another organisation extends the event with a tagged event of its own
ForeignExtension(id, tag) ==
    /\ Len(subs) < MaxSubs
    /\ subs' = Append(subs,
           [extends |-> id, Orgc |-> other_org_id, Tag |-> {tag},
            publish_timestamp |-> now, Object |-> <<>>])
    /\ last' = [op |-> "store"]
    /\ UNCHANGED <<events, now, nscored, runs>>

\* the store clock advances
Tick ==
    /\ now < MaxTime
    /\ now' = now + 1
    /\ last' = [op |-> "store"]
    /\ UNCHANGED <<events, subs, nscored, runs>>

----------------------------------------------------------------------------
(* Spec: the review workflow on a store of freshly published events.       *)

NewEvent(tags) ==
    [Tag |-> tags, timestamp |-> 0, publish_timestamp |-> 0,
     Attribute |-> <<>>, Object |-> <<>>]

Init ==
    /\ events \in [Ids -> {NewEvent(tags) : tags \in SUBSET {threat_report_tag_id}}]
    /\ subs = <<>>
    /\ now = 0
    /\ nscored = [id \in Ids |-> 0]
    /\ last = [op |-> "none"]
    /\ runs = NoRuns

Next ==
    \/ \E id \in Ids : Approve(id)
    \/ \E id \in Ids, message \in Edited : Feedback(id, message)
    \/ \E id \in Ids, scorevalue \in {8}, justification \in Edited :
           Score(id, scorevalue, justification)
    \/ \E id \in Ids : Republish(id)
    \/ \E id \in Ids, tag \in {info_request_tag_id, score_tag_id} :
           ForeignExtension(id, tag)
    \/ Tick

Spec == Init /\ [][Next]_vars

----------------------------------------------------------------------------
(* SpecFilter: the reading commands against a store whose events carry any *)
(* tags and timestamps, with at most one reviewed sub-event.               *)

PlainEvents ==
    {[Tag |-> {threat_report_tag_id} \cup tags, timestamp |-> t,
      publish_timestamp |-> p, Attribute |-> <<>>, Object |-> <<>>] :
        tags \in SUBSET {approved_tag_id}, t \in Times, p \in Times}

InfoRequest(id, t) ==
    [extends |-> id, Orgc |-> yt_org_id,
     Tag |-> {info_request_tag_id, approved_tag_id},
     publish_timestamp |-> t, Object |-> <<>>]

ScoringEvent(id, objs) ==
    [extends |-> id, Orgc |-> yt_org_id, Tag |-> {score_tag_id},
     publish_timestamp |-> 0, Object |-> objs]

InitFilter ==
    /\ events \in [Ids -> PlainEvents]
    /\ subs \in {<<>>}
           \cup {<<InfoRequest(id, 1)>> : id \in Ids}
           \cup {<<ScoringEvent(id, <<[timestamp |-> 1, score |-> 8]>>)>> : id \in Ids}
    /\ now = MaxTime
    /\ nscored = [id \in Ids |-> 0]
    /\ last = [op |-> "none"]
    /\ runs = NoRuns

NextFilter ==
    \/ ReportsCmd(OptTimes, OptTimes)
    \/ TeamReportCmd(OptTimes, OptTimes)

SpecFilter == InitFilter /\ [][NextFilter]_vars

----------------------------------------------------------------------------
(* SpecFlatten: the listing against a store whose first event has any      *)
(* timestamps on itself, its attributes, its objects and their attributes. *)

ObjectChoices ==
    {[timestamp |-> t, Attribute |-> a] :
        t \in Times, a \in BSeq(Times, MaxAttrs)}

NestedEvents ==
    {[Tag |-> {threat_report_tag_id}, timestamp |-> t, publish_timestamp |-> p,
      Attribute |-> a, Object |-> o] :
        t \in Times, p \in Times, a \in BSeq(Times, MaxAttrs),
        o \in BSeq(ObjectChoices, MaxObjs)}

InitFlatten ==
    /\ \E e \in NestedEvents :
           events = [id \in Ids |->
                        IF id = 1 THEN e ELSE NewEvent({threat_report_tag_id})]
    /\ subs = <<>>
    /\ now = MaxTime
    /\ nscored = [id \in Ids |-> 0]
    /\ last = [op |-> "none"]
    /\ runs = NoRuns

NextFlatten ==
    \/ ReportsCmd(OptTimes, {None})
    \/ TeamReportCmd({None}, OptTimes)

SpecFlatten == InitFlatten /\ [][NextFlatten]_vars

----------------------------------------------------------------------------
(* SpecScoring: the reading commands against a store whose first event has *)
(* been scored: any scoring objects, held in one scoring event or split    *)
(* over two, the second one extending any of the events.                   *)

ScoringObjects ==
    {[timestamp |-> t, score |-> v] : t \in Times, v \in ScoreValues}

InitScoring ==
    /\ events = [id \in Ids |-> NewEvent({threat_report_tag_id})]
    /\ \E objs \in BSeq(ScoringObjects, MaxEntries), k \in 0..MaxEntries,
          id \in Ids :
           /\ k <= Len(objs)
           /\ subs = IF k = Len(objs)
                     THEN <<ScoringEvent(1, objs)>>
                     ELSE <<ScoringEvent(1, SubSeq(objs, 1, k)),
                            ScoringEvent(id, SubSeq(objs, k + 1, Len(objs)))>>
    /\ now = MaxTime
    /\ nscored = [id \in Ids |-> 0]
    /\ last = [op |-> "none"]
    /\ runs = NoRuns

NextScoring ==
    \/ TeamReportCmd({None}, {None})
    \/ ReportsCmd({None}, {None})

SpecScoring == InitScoring /\ [][NextScoring]_vars

----------------------------------------------------------------------------
(* SpecRuns: overlapping and failing runs of score on a store of freshly   *)
(* published threat reports.                                               *)

InitRuns ==
    /\ events = [id \in Ids |-> NewEvent({threat_report_tag_id})]
    /\ subs = <<>>
    /\ now = 0
    /\ nscored = [id \in Ids |-> 0]
    /\ last = [op |-> "none"]
    /\ runs = NoRuns

NextRuns ==
    \/ \E p \in Procs, id \in Ids, scorevalue \in {8}, justification \in Edited :
           ScoreBegin(p, id, scorevalue, justification)
    \/ \E p \in Procs : ScoreLookup(p)
    \/ \E p \in Procs : ScoreCreate(p)
    \/ \E p \in Procs : ScoreTag(p)
    \/ \E p \in Procs : ScoreAddObject(p)
    \/ \E p \in Procs : ScoreWriteFails(p)

SpecRuns == InitRuns /\ [][NextRuns]_vars

----------------------------------------------------------------------------
(* Properties.                                                             *)

Range(s) == {s[i] : i \in DOMAIN s}

\* every report get_reports yields: called without filters it yields the
\* report of every threat report event, and a filter only drops reports
YieldedReports == Range(get_reports({}, None, None, None))

MaxOf(S) == CHOOSE m \in S : \A x \in S : x <= m

\* sub-events of id carrying the info-request tag, whoever created them
TaggedInfoRequests(id) ==
    {i \in extensionEvents(id) : info_request_tag_id \in subs[i].Tag}

\* those created by the reviewing organisation
ReviewedInfoRequests(id) ==
    {i \in TaggedInfoRequests(id) : subs[i].Orgc = yt_org_id}

\* the status of an unapproved report whose info requests are IR
ExpectedStatus(published, IR) ==
    IF IR = {} THEN "new"
    ELSE IF published > MaxOf({subs[i].publish_timestamp : i \in IR})
         THEN "updated" ELSE "info-requested"

\* C2: every yielded report whose primary event carries the approved tag has
\* status approved, whatever info requests exist and however their
\* timestamps compare with the publish timestamp.
C2_ApprovedDominates ==
    \A r \in YieldedReports :
        approved_tag_id \in events[r.id].Tag => r.status = "approved"

\* an approved report is yielded although an info request of the reviewing
\* organisation is newer than its publication
C2_Witness ==
    \E r \in YieldedReports :
        /\ approved_tag_id \in events[r.id].Tag
        /\ r.status = "approved"
        /\ \E i \in ReviewedInfoRequests(r.id) :
               subs[i].publish_timestamp > r.published

\* C3 as stated: for a report without the approved tag, the status is new
\* without info-request sub-records, and otherwise updated exactly when the
\* publish timestamp is strictly greater than the newest info request's, the
\* info requests being the sub-records that carry the info-request tag.
C3_StatusFromTaggedInfoRequests ==
    \A r \in YieldedReports :
        approved_tag_id \notin events[r.id].Tag =>
            r.status = ExpectedStatus(r.published, TaggedInfoRequests(r.id))

\* C3 amended: the same, the info requests being the sub-records that carry
\* the info-request tag and were created by the reviewing organisation, and
\* their timestamp being their publish timestamp.
C3_StatusFromReviewedInfoRequests ==
    \A r \in YieldedReports :
        approved_tag_id \notin events[r.id].Tag =>
            r.status = ExpectedStatus(r.published, ReviewedInfoRequests(r.id))

\* a report republished after the newer of two info requests made at
\* different times is yielded as updated
C3_Witness ==
    \E r \in YieldedReports :
        /\ approved_tag_id \notin events[r.id].Tag
        /\ r.status = "updated"
        /\ \E i, j \in ReviewedInfoRequests(r.id) :
               /\ subs[i].publish_timestamp < subs[j].publish_timestamp
               /\ subs[j].publish_timestamp < r.published

\* the scoring containers of id: sub-events of the reviewing organisation
\* that carry the score tag
ScoringContainers(id) ==
    {i \in ReviewedSubevents(id) : score_tag_id \in subs[i].Tag}

\* C6: after two successful score commands on the same threat report there
\* is exactly one scoring container for it, holding exactly two entries.
C6_OneContainerTwoEntries ==
    \A id \in Ids :
        nscored[id] = 2 =>
            /\ Cardinality(ScoringContainers(id)) = 1
            /\ \A c \in ScoringContainers(id) : Len(subs[c].Object) = 2

\* the second score command on a report has just succeeded
C6_Witness ==
    /\ last.op = "score"
    /\ ~last.aborted
    /\ nscored[last.id] = 2
    /\ last.tag_calls = 0

\* C10: an approve of an event that already carries the approved tag, and a
\* score of an event that lacks the threat-report tag, abort with no tag
\* call issued and the store as it was.
C10_Step(id) ==
    /\ (last'.op = "approve" /\ last'.id = id
            /\ approved_tag_id \in events[id].Tag)
        => (last'.aborted /\ last'.tag_calls = 0 /\ UNCHANGED <<events, subs>>)
    /\ (last'.op = "score" /\ last'.id = id
            /\ threat_report_tag_id \notin events[id].Tag)
        => (last'.aborted /\ last'.tag_calls = 0
            /\ UNCHANGED <<events, subs, nscored>>)

C10_AbortLeavesStore == [][\A id \in Ids : C10_Step(id)]_vars

\* an approve has just aborted on an approved event
C10_Witness ==
    /\ last.op = "approve"
    /\ last.aborted
    /\ approved_tag_id \in events[last.id].Tag

\* a score has just aborted on an event that is no threat report
C10_WitnessScore ==
    /\ last.op = "score"
    /\ last.aborted
    /\ threat_report_tag_id \notin events[last.id].Tag

----------------------------------------------------------------------------
(* Properties of the reading commands, on the result kept in last.         *)

HasRows == last.op \in {"reports", "team_report"}

\* the require_score argument the command passed to get_reports
PassedRequireScore ==
    IF last.op = "reports"
    THEN RequireScore(last.scored, last.unscored).require_score
    ELSE None

\* the entries have pairwise different timestamps, so that their order by
\* ascending timestamp is determined
DistinctTimestamps(entries) ==
    \A i, j \in DOMAIN entries :
        i # j => entries[i].timestamp # entries[j].timestamp

\* the scores of the entries by ascending timestamp, oldest first
ByAscendingTimestamp(entries) ==
    LET N == Len(entries)
        f == CHOOSE g \in [1..N -> 1..N] :
                 \A i, j \in 1..N :
                     i < j => entries[g[i]].timestamp < entries[g[j]].timestamp
    IN  [i \in 1..N |-> entries[f[i]].score]

\* C1: with N >= 1 pooled entries, overall_score is the sum of i * s_i over
\* the sum of i, s_1..s_N being the scores by ascending timestamp (the newest
\* has weight N); with no entry it is None.  Stated for entries of pairwise
\* different timestamps.
C1_NewestWeighsMost ==
    HasRows =>
        \A r \in Range(last.rows) :
            LET N == Len(r._scores)
                s == ByAscendingTimestamp(r._scores)
            IN  IF N = 0 THEN r.overall_score = None
                ELSE DistinctTimestamps(r._scores) =>
                         /\ r.overall_score # None
                         /\ r.overall_score[1][1] * SumSeq([i \in 1..N |-> i])
                              = SumSeq([i \in 1..N |-> i * s[i]])
                                * r.overall_score[1][2]

\* C7: team_report computes the standard deviation only of a sample of at
\* least two overall scores, and completes without error on a sample of
\* none or one.
C7_StdevFromTwoValues ==
    last.op = "team_report" =>
        /\ last.stdev_called => Len(last.scores) >= 2
        /\ Len(last.scores) < 2 => ~last.error

\* C5: reports called with --scored and --unscored aborts before any store
\* read and lists nothing.
C5_BothFlagsAbort ==
    (last.op = "reports" /\ last.scored /\ last.unscored) =>
        (last.aborted /\ last.fetches = 0 /\ last.rows = <<>>)

\* every timestamp of an event: its own, its publication, its attributes',
\* its objects' and their attributes'
AllTimestamps(e) ==
    {e.timestamp, e.publish_timestamp}
        \cup Range(e.Attribute)
        \cup UNION {{o.timestamp} \cup Range(o.Attribute) : o \in Range(e.Object)}

\* the number of scoring entries pooled for id
RECURSIVE PooledEntries(_)
PooledEntries(S) ==
    IF S = {} THEN 0
    ELSE LET c == CHOOSE x \in S : TRUE
         IN  Len(subs[c].Object) + PooledEntries(S \ {c})

\* event id passes the since, until and score filters of the call in last
PassesOtherFilters(id) ==
    /\ last.since # None => MaxOf(AllTimestamps(events[id])) >= last.since[1]
    /\ last.until # None => events[id].publish_timestamp <= last.until[1]
    /\ PassedRequireScore = Some(TRUE) => PooledEntries(ScoringContainers(id)) > 0
    /\ PassedRequireScore = Some(FALSE) => PooledEntries(ScoringContainers(id)) = 0

\* C4 as stated: called without a status set, get_reports yields no report
\* with status approved.
C4_ApprovedExcludedByDefault ==
    (HasRows /\ (last.op = "reports" => last.only = {})) =>
        \A r \in Range(last.rows) : r.status # "approved"

\* C4 amended: called without a status set, get_reports applies no status
\* filter; a threat report carrying the approved tag is yielded, with status
\* approved, exactly when it passes the since, until and score filters and
\* the status set is empty or contains approved.
C4_ApprovedExcludedOnRequest ==
    (last.op = "reports" /\ ~last.aborted) =>
        \A id \in Ids :
            (Searched(id) /\ approved_tag_id \in events[id].Tag) =>
                /\ (\E r \in Range(last.rows) : r.id = id)
                     <=> /\ last.only = {} \/ "approved" \in last.only
                         /\ PassesOtherFilters(id)
                /\ \A r \in Range(last.rows) :
                       r.id = id => r.status = "approved"

\* a listing without a status set shows an approved report
C4_Witness ==
    /\ last.op = "reports"
    /\ ~last.aborted
    /\ last.only = {}
    /\ \E r \in Range(last.rows) :
           r.status = "approved" /\ approved_tag_id \in events[r.id].Tag

\* C8: every yielded report has updated >= published, and updated is the
\* maximum of the event's own timestamp, its publish timestamp and the
\* timestamps of its attributes, its objects and their attributes.
C8_UpdatedIsWatermark ==
    HasRows =>
        \A r \in Range(last.rows) :
            /\ r.updated >= r.published
            /\ r.updated = MaxOf(AllTimestamps(events[r.id]))

\* a yielded report whose own timestamp is older than its publication and
\* whose updated comes from an attribute of a nested object alone
C8_Witness ==
    /\ HasRows
    /\ \E r \in Range(last.rows) :
           LET e == events[r.id]
           IN  /\ e.timestamp < e.publish_timestamp
               /\ e.publish_timestamp < r.updated
               /\ \A a \in Range(e.Attribute) : a < r.updated
               /\ \E o \in Range(e.Object) :
                      /\ o.timestamp < r.updated
                      /\ \E a \in Range(o.Attribute) : a = r.updated

\* C9: over the same store and the same other arguments, the reports
\* yielded with since = Y are among those yielded with since = X, for every
\* X < Y.
C9_SinceMonotone ==
    (last.op = "reports" /\ ~last.aborted /\ last.since # None) =>
        \A X \in Times :
            X < last.since[1] =>
                Range(last.rows) \subseteq
                    Range(get_reports(last.only, Some(X), last.until,
                                      PassedRequireScore))

\* a listing with since = Y that lost a report of the listing with an
\* earlier since and kept another
C9_Witness ==
    /\ last.op = "reports"
    /\ ~last.aborted
    /\ last.since # None
    /\ last.rows # <<>>
    /\ \E X \in Times :
           /\ X < last.since[1]
           /\ Range(get_reports(last.only, Some(X), last.until,
                                PassedRequireScore)) # Range(last.rows)

----------------------------------------------------------------------------
(* Properties of overlapping and failing runs of score.                    *)

\* the sub-events extending id that a score run created for the reviewing
\* organisation (in SpecRuns nothing else creates sub-events)
CreatedByScore(id) == ReviewedSubevents(id)

\* C11: whatever the interleaving of the steps of score runs on the same
\* threat report, and whatever runs stopped on a failed write and were run
\* again, at most one scoring container exists for the report.
C11_AtMostOneContainer ==
    \A id \in Ids : Cardinality(CreatedByScore(id)) <= 1

----------------------------------------------------------------------------
(* Properties of the status table of team_report.                          *)

\* the reports among rows whose status is k
WithStatus(rows, k) == {i \in DOMAIN rows : rows[i].status = k}

\* C12: after team_report has consumed its reports, none included, the
\* status-to-count map has exactly the keys new, info-requested, updated and
\* approved, each count is the number of consumed reports with that status,
\* and the counts add up to the number of reports consumed.
C12_CountsByStatus ==
    last.op = "team_report" =>
        LET counts == last.reports_by_status
        IN  /\ DOMAIN counts = {"new", "info-requested", "updated", "approved"}
            /\ \A k \in DOMAIN counts :
                   counts[k] = Cardinality(WithStatus(last.rows, k))
            /\ counts["new"] + counts["info-requested"] + counts["updated"]
                   + counts["approved"] = Len(last.rows)

\* team_report consumed two reports of the same status
C12_Witness ==
    /\ last.op = "team_report"
    /\ Len(last.rows) = 2
    /\ last.rows[1].status = last.rows[2].status
    /\ last.reports_by_status[last.rows[1].status] = 2

----------------------------------------------------------------------------
(* Properties of approval over the workflow.                               *)

\* an approve of id has succeeded: no event starts with the approved tag,
\* and only approve attaches it to a primary event
ApproveSucceeded(id) == approved_tag_id \in events[id].Tag

\* get_reports yields a report for id, and only with status approved
YieldsApproved(id) ==
    /\ \E r \in YieldedReports : r.id = id
    /\ \A r \in YieldedReports : r.id = id => r.status = "approved"

\* a step after an approve of id succeeded keeps the approved tag on the
\* primary event and is not a tag call attaching it again
C13_Step(id) ==
    ApproveSucceeded(id) =>
        /\ ApproveSucceeded(id)'
        /\ ~(last'.op = "approve" /\ last'.id = id /\ last'.tag_calls > 0)

\* C13: once an approve of a threat report has succeeded, get_reports yields
\* it with status approved after any later approve, feedback, score and
\* republication, and no later step is a tag call attaching the approved tag
\* to the primary event, so that at most one such call is ever made.
C13_ApprovedAbsorbing ==
    /\ [](\A id \in Ids :
            (ApproveSucceeded(id) /\ threat_report_tag_id \in events[id].Tag)
                => YieldsApproved(id))
    /\ [][\A id \in Ids : C13_Step(id)]_vars

\* a feedback went through on a threat report approved before it, the
\* report has been scored and published again, its info request is newer
\* than its publication, and it is still yielded as approved
C13_Witness ==
    \E id \in Ids :
        /\ last.op = "feedback" /\ last.id = id /\ ~last.aborted
        /\ ApproveSucceeded(id)
        /\ YieldsApproved(id)
        /\ nscored[id] > 0
        /\ \E i \in ReviewedInfoRequests(id) :
               subs[i].publish_timestamp > events[id].publish_timestamp
                   /\ events[id].publish_timestamp > 0

====
